---- MODULE Spec2Model ----
\* Deduplicated storage and quota accounting of vinnodrive (src/app/main.py,
\* src/app/models.py): upload_file, delete_file, the share endpoints and the
\* rate-limit gate, as a state machine over the relational tables and the blob
\* directory.
EXTENDS Integers, Sequences, FiniteSets, TLC

\* ------------------------------------------------------------------ bounds
MaxFiles == 3        \* File rows ever inserted (ids 1..MaxFiles)
MaxConcFiles == 2    \* File rows ever inserted by overlapping requests
MaxShareFiles == 2   \* File rows ever inserted in a run with share requests
MaxFolders == 2      \* Folder rows ever inserted by overlapping requests
MaxFolderRows == 3   \* File rows plus Folder rows ever inserted in the runs
                     \* that end in a folder listing
MaxBatch == 2        \* items of one multipart upload
MaxShares == 1       \* Share rows plus SharedFile rows ever inserted
Quota == 2           \* User.storage_quota, in model bytes

\* ------------------------------------------------------- program constants
RATE_LIMIT_CALLS == 2

Users == {"u1", "u2"}
Contents == {"c1", "c2", "c3"}
\* A folder name is the sequence of its characters; NoFolder is the None of
\* a form field that was not sent and of File.folder
NoFolder == <<"None">>
FolderInputs == {NoFolder}

\* the key of the default group of the listing
Root == <<"R", "o", "o", "t">>

\* the raw folder names of the create-folder form: blank, padded, with a path
\* separator, upper case before lower case, and the key of the default group
RawNames ==
  {<<" ">>, <<"a">>, <<" ", "a">>, <<"B">>, <<"a", "/">>, <<"\\">>, Root}

\* the uploads of the runs that end in a folder listing: one content, the
\* folder field not sent, empty, blank, padded, plain, or the name the
\* listing gives the default group
FolderContents == {"c1"}
UploadFolders == {NoFolder, <<>>, <<" ">>, <<" ", "a">>, <<"B">>, Root}

\* the code point of a character, the order of str comparison
Ord(ch) ==
  CASE ch = " " -> 32 [] ch = "/" -> 47 [] ch = "B" -> 66 [] ch = "R" -> 82
    [] ch = "\\" -> 92 [] ch = "a" -> 97 [] ch = "o" -> 111 [] ch = "t" -> 116

\* str.strip(): leading and trailing whitespace removed
RECURSIVE lstrip(_)
lstrip(s) == IF s # <<>> /\ Head(s) = " " THEN lstrip(Tail(s)) ELSE s

RECURSIVE rstrip(_)
rstrip(s) ==
  IF s # <<>> /\ s[Len(s)] = " " THEN rstrip(SubSeq(s, 1, Len(s) - 1)) ELSE s

strip(s) == rstrip(lstrip(s))

\* `ch in s`
Contains(s, ch) == \E i \in DOMAIN s : s[i] = ch

\* folder_name = folder.strip() if folder else None
folder_name(folder) ==
  IF folder = NoFolder \/ folder = <<>> THEN NoFolder ELSE strip(folder)

\* s < t of two str
RECURSIVE str_lt(_, _)
str_lt(s, t) ==
  IF t = <<>> THEN FALSE
  ELSE IF s = <<>> THEN TRUE
  ELSE IF Ord(Head(s)) # Ord(Head(t)) THEN Ord(Head(s)) < Ord(Head(t))
  ELSE str_lt(Tail(s), Tail(t))

\* sorted(K, reverse=True)
RECURSIVE sorted_Reversed(_)
sorted_Reversed(K) ==
  IF K = {} THEN <<>>
  ELSE LET m == CHOOSE x \in K : \A y \in K \ {x} : ~str_lt(x, y)
       IN <<m>> \o sorted_Reversed(K \ {m})

\* sorted(K) of a set of distinct str
RECURSIVE sorted(_)
sorted(K) ==
  IF K = {} THEN <<>>
  ELSE LET m == CHOOSE x \in K : \A y \in K \ {x} : str_lt(x, y)
       IN <<m>> \o sorted(K \ {m})

\* len(content) and hashlib.sha256(content).hexdigest() of an uploaded item
Size(c) == IF c = "c2" THEN 2 ELSE 1
Hash(c) == IF c = "c1" THEN "h1" ELSE IF c = "c2" THEN "h2" ELSE "h3"
Hashes == {Hash(c) : c \in Contents}

Batches == UNION {[1..n -> Contents] : n \in 1..MaxBatch}
\* the contents uploaded next to share requests: a hash and another hash
ShareContents == {"c1", "c2"}
\* the uploads that overlap: two contents are enough for every race
ConcBatches == {b \in Batches : \A i \in DOMAIN b : b[i] \in {"c1", "c2"}}

VARIABLES
  files,          \* table files: set of File rows
  storage_used,   \* table users: User.storage_used per username
  blobs,          \* storage/blobs: state of the file named by each hash
  shares,         \* table shares
  shared_files,   \* table shared_files
  rate_limits,    \* table rate_limits: rows inside the current window, per key
  next_id,        \* autoincrement of files.id
  next_share,     \* autoincrement of shares.id / shared_files.id
  last,           \* the last request of a handler that ran alone: its input,
                  \* its response and the state it ran on
  req,            \* the requests in flight: one handler position per worker
  folders         \* table folders

vars == <<files, storage_used, blobs, shares, shared_files, rate_limits,
          next_id, next_share, last, req, folders>>

core == <<files, storage_used, blobs, shares, shared_files>>

\* ------------------------------------------------------------- rate limit
\* The rows of table rate_limits whose timestamp lies inside the window of the
\* latest request. Requests for one (username, endpoint) key may arrive inside
\* one window; a request for another key arrives after the window has passed,
\* so the rows inside the window always belong to a single key.
NoRows == [username |-> "u1", endpoint |-> "upload", count |-> 0]

\* recent_requests: the rows of (username, endpoint) with timestamp >= window_start
recent_requests(username, endpoint) ==
  IF rate_limits.username = username /\ rate_limits.endpoint = endpoint
  THEN rate_limits.count ELSE 0

\* the gate that lets one request more through
check_rate_limit_OffByOne(username, endpoint) ==
  ~(recent_requests(username, endpoint) > RATE_LIMIT_CALLS)

\* check_rate_limit returns False at RATE_LIMIT_CALLS rows inside the window
check_rate_limit(username, endpoint) ==
  ~(recent_requests(username, endpoint) >= RATE_LIMIT_CALLS)

\* db.add(RateLimit(username, endpoint, timestamp=now)); db.commit()
LogRequest(username, endpoint) ==
  rate_limits' = [username |-> username, endpoint |-> endpoint,
                  count |-> recent_requests(username, endpoint) + 1]

\* More than RATE_LIMIT_WINDOW passes: every logged row leaves the window.
Tick ==
  /\ rate_limits.count > 0
  /\ rate_limits' = NoRows
  /\ UNCHANGED <<files, storage_used, blobs, shares, shared_files,
                 next_id, next_share, last, req, folders>>

\* ------------------------------------------------------------ the session
\* A SQLAlchemy session of one request: the File rows added and not yet
\* committed, the User row as loaded into the identity map, and the counters
\* of upload_file.
NewSession ==
  [pend |-> <<>>, loaded |-> FALSE, orig |-> 0, used |-> 0,
   uploaded_count |-> 0, skipped_count |-> 0, items |-> <<>>]

\* app.database.SessionLocal: whether a query flushes the pending rows first
AutoFlush == TRUE

\* the query without its file_hash filter
user_has_uploaded_before_AnyHash(username, file_hash, S) ==
  \/ \E f \in files : f.uploader = username
  \/ /\ AutoFlush
     /\ \E i \in DOMAIN S.pend : S.pend[i].uploader = username

\* the query without its uploader filter
user_has_uploaded_before_AnyUser(username, file_hash, S) ==
  \/ \E f \in files : f.file_hash = file_hash
  \/ /\ AutoFlush
     /\ \E i \in DOMAIN S.pend : S.pend[i].file_hash = file_hash

\* db.query(File).filter_by(uploader, file_hash).first() is not None
user_has_uploaded_before(username, file_hash, S) ==
  \/ \E f \in files : f.uploader = username /\ f.file_hash = file_hash
  \/ /\ AutoFlush
     /\ \E i \in DOMAIN S.pend :
          S.pend[i].uploader = username /\ S.pend[i].file_hash = file_hash

\* the user row read again from the table at every use, the charges of the
\* session dropped
LoadUser_Requery(username, S) ==
  [S EXCEPT !.loaded = TRUE, !.orig = storage_used[username],
            !.used = storage_used[username]]

\* db.query(User).filter_by(username).first(): loads the row once per session
LoadUser(username, S) ==
  IF S.loaded THEN S
  ELSE [S EXCEPT !.loaded = TRUE, !.orig = storage_used[username],
                 !.used = storage_used[username]]

\* the comparison with >= in place of >
check_storage_quota_Strict(used, file_size) == ~(used + file_size >= Quota)

\* check_storage_quota: (True, "") unless storage_used + file_size > quota
check_storage_quota(used, file_size) == ~(used + file_size > Quota)

NewRecord(username, c, dup, folder) ==
  [uploader |-> username, file_hash |-> Hash(c), size |-> Size(c),
   is_duplicate |-> dup, folder |-> folder_name(folder)]

Outcome(c, prior, skipped) ==
  [file_hash |-> Hash(c), size |-> Size(c), prior |-> prior, skipped |-> skipped]

\* `continue` of the quota branch: skipped_count += 1, nothing else
SkipItem(c, prior, S) ==
  [S EXCEPT !.skipped_count = @ + 1,
            !.items = Append(@, Outcome(c, prior, TRUE))]

\* the charge without its `if not user_has_uploaded_before`
AddRecord_ChargesDuplicate(username, c, folder, prior, S) ==
  LET S1 == LoadUser(username, S)
  IN [S1 EXCEPT !.pend = Append(@, NewRecord(username, c, prior, folder)),
                !.used = @ + Size(c),
                !.uploaded_count = @ + 1,
                !.items = Append(@, Outcome(c, prior, FALSE))]

\* db.add(record); user.storage_used += size unless duplicate; uploaded_count += 1
AddRecord(username, c, folder, prior, S) ==
  LET S1 == IF prior THEN S ELSE LoadUser(username, S)
  IN [S1 EXCEPT !.pend = Append(@, NewRecord(username, c, prior, folder)),
                !.used = IF prior THEN @ ELSE @ + Size(c),
                !.uploaded_count = @ + 1,
                !.items = Append(@, Outcome(c, prior, FALSE))]

\* open(blob_path, "wb") creates or truncates the file; f.write(content) and
\* the close of the with-block complete it (an unlinked file stays unlinked)
OpenBlob(B, file_hash) == [B EXCEPT ![file_hash] = "partial"]

\* the write that leaves the opened file as it is
WriteBlob_Dropped(B, file_hash) == B

WriteBlob(B, file_hash) ==
  IF B[file_hash] = "absent" THEN B ELSE [B EXCEPT ![file_hash] = "full"]

\* os.path.exists(blob_path)
blob_exists_globally(B, file_hash) == B[file_hash] # "absent"

\* the iteration with the quota check outside `if not user_has_uploaded_before`
upload_item_AlwaysChecksQuota(username, c, folder, S, B) ==
  LET prior == user_has_uploaded_before(username, Hash(c), S)
      S1 == LoadUser(username, S)
      quota_ok == check_storage_quota(S1.used, Size(c))
  IN IF ~quota_ok
     THEN [s |-> SkipItem(c, prior, S1), b |-> B]
     ELSE [s |-> AddRecord(username, c, folder, prior, S1),
           b |-> IF blob_exists_globally(B, Hash(c)) THEN B
                 ELSE WriteBlob(OpenBlob(B, Hash(c)), Hash(c))]

\* One iteration of the loop of upload_file, on session S and blob directory B
upload_item(username, c, folder, S, B) ==
  LET prior == user_has_uploaded_before(username, Hash(c), S)
      S1 == IF prior THEN S ELSE LoadUser(username, S)
      quota_ok == prior \/ check_storage_quota(S1.used, Size(c))
  IN IF ~quota_ok
     THEN [s |-> SkipItem(c, prior, S1), b |-> B]
     ELSE [s |-> AddRecord(username, c, folder, prior, S1),
           b |-> IF blob_exists_globally(B, Hash(c)) THEN B
                 ELSE WriteBlob(OpenBlob(B, Hash(c)), Hash(c))]

RECURSIVE upload_loop(_, _, _, _, _, _)
upload_loop(username, batch, folder, i, S, B) ==
  IF i > Len(batch) THEN [s |-> S, b |-> B]
  ELSE LET r == upload_item(username, batch[i], folder, S, B)
       IN upload_loop(username, batch, folder, i + 1, r.s, r.b)

\* db.commit(): INSERT the pending rows, UPDATE the user row if it changed
CommitFiles(S) ==
  files \cup {[id |-> next_id + i - 1] @@ S.pend[i] : i \in DOMAIN S.pend}

CommitUser(username, S) ==
  IF S.loaded /\ S.used # S.orig
  THEN [storage_used EXCEPT ![username] = S.used]
  ELSE storage_used

Snapshot == [files |-> files, storage_used |-> storage_used, blobs |-> blobs]

\* The completed request: its input, its response and the state it ran on
UploadResponse(username, batch, status, S) ==
  [op |-> "upload", user |-> username, batch |-> batch, file_id |-> 0,
   status |-> status, items |-> S.items,
   uploaded_count |-> S.uploaded_count, skipped_count |-> S.skipped_count,
   pre |-> Snapshot]

Response(op, username, file_id, status) ==
  [op |-> op, user |-> username, batch |-> <<>>, file_id |-> file_id,
   status |-> status, items |-> <<>>, uploaded_count |-> 0,
   skipped_count |-> 0, pre |-> Snapshot]

\* ------------------------------------------------------ POST /upload
upload_file(username, batch, folder) ==
  /\ next_id + Len(batch) - 1 <= MaxFiles
  /\ IF ~check_rate_limit(username, "upload")
     THEN /\ last' = UploadResponse(username, batch, "rate_limit", NewSession)
          /\ UNCHANGED <<files, storage_used, blobs, shares, shared_files,
                         rate_limits, next_id, next_share, folders>>
     ELSE LET r == upload_loop(username, batch, folder, 1, NewSession, blobs)
          IN /\ LogRequest(username, "upload")
             /\ files' = CommitFiles(r.s)
             /\ storage_used' = CommitUser(username, r.s)
             /\ blobs' = r.b
             /\ next_id' = next_id + Len(r.s.pend)
             /\ last' = UploadResponse(username, batch,
                           IF r.s.skipped_count > 0 THEN "quota" ELSE "ok", r.s)
             /\ UNCHANGED <<shares, shared_files, next_share, folders>>

\* ------------------------------------------------------ POST /delete/{id}
\* the lookup without its uploader filter
OwnFile_AnyUser(username, file_id) == {f \in files : f.id = file_id}

\* db.query(File).filter_by(id=file_id, uploader=username).first()
OwnFile(username, file_id) ==
  {f \in files : f.id = file_id /\ f.uploader = username}

\* the count compared as `> 1`: one duplicate does not hold the original
duplicate_count_OffByOne(username, file_hash) ==
  Cardinality({f \in files : /\ f.uploader = username
                             /\ f.file_hash = file_hash
                             /\ f.is_duplicate}) - 1

\* count of the user's rows with this hash and is_duplicate = True
duplicate_count(username, file_hash) ==
  Cardinality({f \in files : /\ f.uploader = username
                             /\ f.file_hash = file_hash
                             /\ f.is_duplicate})

\* the refund without its reset to 0
Refund_NoClamp(used, size) == used - size

\* user.storage_used -= file.size, reset to 0 when negative
Refund(used, size) == IF used - size < 0 THEN 0 ELSE used - size

\* the count over the owner's rows only
ReferenceCount_OwnerOnly(F, file) ==
  Cardinality({f \in F : /\ f.file_hash = file.file_hash
                         /\ f.uploader = file.uploader})

\* db.query(File).filter_by(file_hash=file.file_hash).count() over the rows F
ReferenceCount(F, file) ==
  Cardinality({f \in F : f.file_hash = file.file_hash})

\* the delete without its clean-up of the share tables
without_file_Kept(T, file_id) == T

\* db.query(Share).filter_by(file_id=file_id).delete(), and the same on
\* SharedFile: the rows T of the table that remain
without_file(T, file_id) == {s \in T : s.file_id # file_id}

\* os.path.exists(blob_path), then os.remove(blob_path)
RemoveBlob(B, file_hash) ==
  IF B[file_hash] # "absent" THEN [B EXCEPT ![file_hash] = "absent"] ELSE B

delete_file(username, file_id) ==
  IF ~check_rate_limit(username, "delete")
  THEN /\ last' = Response("delete", username, file_id, "rate_limit")
       /\ UNCHANGED <<files, storage_used, blobs, shares, shared_files,
                      rate_limits, next_id, next_share, folders>>
  ELSE /\ LogRequest(username, "delete")
       /\ UNCHANGED <<next_id, next_share, folders>>
       /\ IF OwnFile(username, file_id) = {}
          THEN /\ last' = Response("delete", username, file_id, "not_found")
               /\ UNCHANGED core
          ELSE LET file == CHOOSE f \in OwnFile(username, file_id) : TRUE
               IN IF /\ ~file.is_duplicate
                     /\ duplicate_count(username, file.file_hash) > 0
                  THEN /\ last' = Response("delete", username, file_id,
                                           "delete_duplicates_first")
                       /\ UNCHANGED core
                  ELSE LET S == IF file.is_duplicate THEN NewSession
                                ELSE LET L == LoadUser(username, NewSession)
                                     IN [L EXCEPT
                                           !.used = Refund(@, file.size)]
                           F == files \ {file}
                       IN /\ storage_used' = CommitUser(username, S)
                          /\ shares' = without_file(shares, file_id)
                          /\ shared_files' =
                               without_file(shared_files, file_id)
                          /\ files' = F
                          /\ blobs' = IF ReferenceCount(F, file) = 0
                                      THEN RemoveBlob(blobs, file.file_hash)
                                      ELSE blobs
                          /\ last' = Response("delete", username, file_id, "ok")

\* ------------------------------------------------------ POST /share/{id}
create_share(username, file_id) ==
  IF ~check_rate_limit(username, "share")
  THEN /\ last' = Response("share", username, file_id, "rate_limit")
       /\ UNCHANGED <<files, storage_used, blobs, shares, shared_files,
                      rate_limits, next_id, next_share, folders>>
  ELSE /\ LogRequest(username, "share")
       /\ UNCHANGED <<files, storage_used, blobs, shared_files, next_id,
                    folders>>
       /\ IF OwnFile(username, file_id) = {}
          THEN /\ last' = Response("share", username, file_id, "not_found")
               /\ UNCHANGED <<shares, next_share>>
          ELSE IF \E s \in shares : s.file_id = file_id /\ s.is_active
          THEN /\ last' = Response("share", username, file_id, "exists")
               /\ UNCHANGED <<shares, next_share>>
          ELSE /\ next_share <= MaxShares
               /\ shares' = shares \cup
                    {[id |-> next_share, file_id |-> file_id,
                      created_by |-> username, is_active |-> TRUE]}
               /\ next_share' = next_share + 1
               /\ last' = Response("share", username, file_id, "ok")

\* ------------------------------------------- POST /share-with-user/{id}
share_with_user(username, file_id, target_user) ==
  IF ~check_rate_limit(username, "share-with-user")
  THEN /\ last' = Response("share-with-user", username, file_id, "rate_limit")
       /\ UNCHANGED <<files, storage_used, blobs, shares, shared_files,
                      rate_limits, next_id, next_share, folders>>
  ELSE /\ LogRequest(username, "share-with-user")
       /\ UNCHANGED <<files, storage_used, blobs, shares, next_id, folders>>
       /\ IF OwnFile(username, file_id) = {}
          THEN /\ last' = Response("share-with-user", username, file_id,
                                   "not_found")
               /\ UNCHANGED <<shared_files, next_share>>
          ELSE IF \/ target_user \notin Users
                  \/ \E s \in shared_files :
                       s.file_id = file_id /\ s.shared_with = target_user
          THEN /\ last' = Response("share-with-user", username, file_id,
                                   "exists")
               /\ UNCHANGED <<shared_files, next_share>>
          ELSE /\ next_share <= MaxShares
               /\ shared_files' = shared_files \cup
                    {[id |-> next_share, file_id |-> file_id,
                      shared_by |-> username, shared_with |-> target_user]}
               /\ next_share' = next_share + 1
               /\ last' = Response("share-with-user", username, file_id, "ok")

\* ------------------------------------------------------ GET /upload
\* db.query(File).filter_by(uploader=username).all()
own_files(username) == {f \in files : f.uploader = username}

\* [f.name for f in user_folders]
folder_names(username) ==
  {d.name : d \in {x \in folders : x.owner = username}}

\* the key only for None: a blank folder becomes a group of its own
group_key_NoneOnly(f) == IF f.folder = NoFolder THEN Root ELSE f.folder

\* folder_name = f.folder if f.folder else "Root"
group_key(f) ==
  IF f.folder = NoFolder \/ f.folder = <<>> THEN Root ELSE f.folder

\* the keys of folders_data: "Root", the keys of the files, the folders
folders_data(username) ==
  {Root} \cup {group_key(f) : f \in own_files(username)}
         \cup folder_names(username)

\* sorted_folders: "Root" first, then the other keys as sorted() gives them,
\* each with the files appended under it
sorted_folders(username) ==
  LET ks == sorted(folders_data(username) \ {Root})
      group(k) == [name |-> k,
                   files |-> {f \in own_files(username) : group_key(f) = k}]
  IN <<group(Root)>> \o [i \in 1..Len(ks) |-> group(ks[i])]

\* ------------------------------------------------ requests in flight
\* FastAPI runs each `def` handler on a worker thread with a session of its
\* own; every query, every commit and every filesystem call is one step.
Procs == {"p1", "p2"}

NoFile == [id |-> 0, uploader |-> "u1", file_hash |-> "h1", size |-> 0,
           is_duplicate |-> FALSE, folder |-> NoFolder]

Idle == [pc |-> "idle", user |-> "u1", batch |-> <<>>, folder |-> NoFolder,
         i |-> 0, sess |-> NewSession, prior |-> FALSE, file |-> NoFile]

Item(p) == req[p].batch[req[p].i]

\* the rows the uploads in flight will still insert
Reserved ==
  LET n(p) == IF req[p].pc \in {"query", "quota", "exists", "open", "write",
                                "commit"}
              THEN Len(req[p].batch) ELSE 0
  IN n("p1") + n("p2")

\* end of one loop iteration: the next item, or db.commit() after the loop
NextItem(r) ==
  [r EXCEPT !.i = @ + 1,
            !.pc = IF r.i + 1 > Len(r.batch) THEN "commit" ELSE "query"]

CoreUnchanged == UNCHANGED <<files, storage_used, blobs, shares, shared_files,
                             next_id, next_share, folders>>

\* upload_file up to the rate-limit gate
UploadStart(p, username, batch, folder) ==
  /\ req[p].pc = "idle"
  /\ next_id + Reserved + Len(batch) - 1 <= MaxConcFiles
  /\ CoreUnchanged /\ UNCHANGED last
  /\ IF ~check_rate_limit(username, "upload")
     THEN UNCHANGED <<rate_limits, req>>
     ELSE /\ LogRequest(username, "upload")
          /\ req' = [req EXCEPT ![p] = [Idle EXCEPT !.pc = "query",
                       !.user = username, !.batch = batch, !.folder = folder,
                       !.i = 1]]

\* the query for an earlier row of this user with this hash
UploadQuery(p) ==
  /\ req[p].pc = "query"
  /\ LET prior == user_has_uploaded_before(req[p].user, Hash(Item(p)),
                                           req[p].sess)
     IN req' = [req EXCEPT ![p].prior = prior,
                           ![p].pc = IF prior THEN "exists" ELSE "quota"]
  /\ CoreUnchanged /\ UNCHANGED <<rate_limits, last>>

\* check_storage_quota on the user row as this session reads it
UploadQuota(p) ==
  /\ req[p].pc = "quota"
  /\ LET S1 == LoadUser(req[p].user, req[p].sess)
     IN IF check_storage_quota(S1.used, Size(Item(p)))
        THEN req' = [req EXCEPT ![p].sess = S1, ![p].pc = "exists"]
        ELSE req' = [req EXCEPT ![p] =
                       NextItem([req[p] EXCEPT
                                   !.sess = SkipItem(Item(p), FALSE, S1)])]
  /\ CoreUnchanged /\ UNCHANGED <<rate_limits, last>>

AfterBlob(p) ==
  NextItem([req[p] EXCEPT !.sess = AddRecord(req[p].user, Item(p),
                                   req[p].folder, req[p].prior, req[p].sess)])

\* os.path.exists(blob_path); when present, straight on to db.add(record)
UploadExists(p) ==
  /\ req[p].pc = "exists"
  /\ IF blob_exists_globally(blobs, Hash(Item(p)))
     THEN req' = [req EXCEPT ![p] = AfterBlob(p)]
     ELSE req' = [req EXCEPT ![p].pc = "open"]
  /\ CoreUnchanged /\ UNCHANGED <<rate_limits, last>>

UploadOpen(p) ==
  /\ req[p].pc = "open"
  /\ blobs' = OpenBlob(blobs, Hash(Item(p)))
  /\ req' = [req EXCEPT ![p].pc = "write"]
  /\ UNCHANGED <<files, storage_used, shares, shared_files, next_id,
                 next_share, rate_limits, last, folders>>

\* f.write(content), the close of the file, then db.add(record)
UploadWrite(p) ==
  /\ req[p].pc = "write"
  /\ blobs' = WriteBlob(blobs, Hash(Item(p)))
  /\ req' = [req EXCEPT ![p] = AfterBlob(p)]
  /\ UNCHANGED <<files, storage_used, shares, shared_files, next_id,
                 next_share, rate_limits, last, folders>>

\* db.commit() after the loop, and the response
UploadCommit(p) ==
  /\ req[p].pc = "commit"
  /\ files' = CommitFiles(req[p].sess)
  /\ storage_used' = CommitUser(req[p].user, req[p].sess)
  /\ next_id' = next_id + Len(req[p].sess.pend)
  /\ req' = [req EXCEPT ![p] = Idle]
  /\ UNCHANGED <<blobs, shares, shared_files, next_share, rate_limits, last,
                 folders>>

\* the user row written although the request never reached db.commit()
Rollback_KeepsCharge(username, S) == CommitUser(username, S)

\* The user row after a request that ends without db.commit(): the session is
\* discarded with its pending rows and its change of storage_used
Rollback(username, S) == storage_used

\* An exception inside the loop (OSError of open or of f.write) or the death of
\* the worker at any point of upload_file: no db.commit(); the blob file stays
\* as the request left it
UploadCrash(p) ==
  /\ req[p].pc \in {"query", "quota", "exists", "open", "write", "commit"}
  /\ storage_used' = Rollback(req[p].user, req[p].sess)
  /\ req' = [req EXCEPT ![p] = Idle]
  /\ UNCHANGED <<files, blobs, shares, shared_files, next_id, next_share,
                 rate_limits, last, folders>>

\* delete_file up to the rate-limit gate
DeleteStart(p, username, file_id) ==
  /\ req[p].pc = "idle"
  /\ CoreUnchanged /\ UNCHANGED last
  /\ IF ~check_rate_limit(username, "delete")
     THEN UNCHANGED <<rate_limits, req>>
     ELSE /\ LogRequest(username, "delete")
          /\ req' = [req EXCEPT ![p] = [Idle EXCEPT !.pc = "lookup",
                       !.user = username,
                       !.file = [NoFile EXCEPT !.id = file_id]]]

\* the query for the row, 404 when the user has no such row
DeleteLookup(p) ==
  /\ req[p].pc = "lookup"
  /\ CoreUnchanged /\ UNCHANGED <<rate_limits, last>>
  /\ IF OwnFile(req[p].user, req[p].file.id) = {}
     THEN req' = [req EXCEPT ![p] = Idle]
     ELSE LET file == CHOOSE f \in OwnFile(req[p].user, req[p].file.id) : TRUE
          IN req' = [req EXCEPT ![p].file = file,
                       ![p].pc = IF file.is_duplicate THEN "dcommit"
                                 ELSE "gate"]

\* the count of the user's duplicates of an original
DeleteGate(p) ==
  /\ req[p].pc = "gate"
  /\ CoreUnchanged /\ UNCHANGED <<rate_limits, last>>
  /\ IF duplicate_count(req[p].user, req[p].file.file_hash) > 0
     THEN req' = [req EXCEPT ![p] = Idle]
     ELSE req' = [req EXCEPT ![p].pc = "refund"]

\* the user row is read and storage_used lowered in the session
DeleteRefund(p) ==
  /\ req[p].pc = "refund"
  /\ LET L == LoadUser(req[p].user, req[p].sess)
     IN req' = [req EXCEPT ![p].sess = [L EXCEPT
                                          !.used = Refund(@, req[p].file.size)],
                           ![p].pc = "dcommit"]
  /\ CoreUnchanged /\ UNCHANGED <<rate_limits, last>>

\* the two share DELETEs, db.delete(file) and db.commit()
DeleteCommit(p) ==
  /\ req[p].pc = "dcommit"
  /\ storage_used' = CommitUser(req[p].user, req[p].sess)
  /\ shares' = without_file(shares, req[p].file.id)
  /\ shared_files' = without_file(shared_files, req[p].file.id)
  /\ files' = {f \in files : f.id # req[p].file.id}
  /\ req' = [req EXCEPT ![p].pc = "count"]
  /\ UNCHANGED <<blobs, next_id, next_share, rate_limits, last, folders>>

\* the count of the rows of any user with this hash, after the commit
DeleteCount(p) ==
  /\ req[p].pc = "count"
  /\ req' = [req EXCEPT ![p] =
               IF ReferenceCount(files, req[p].file) = 0
               THEN [req[p] EXCEPT !.pc = "rmexists"] ELSE Idle]
  /\ CoreUnchanged /\ UNCHANGED <<rate_limits, last>>

\* os.path.exists(blob_path) of the delete
DeleteExists(p) ==
  /\ req[p].pc = "rmexists"
  /\ req' = [req EXCEPT ![p] =
               IF blob_exists_globally(blobs, req[p].file.file_hash)
               THEN [req[p] EXCEPT !.pc = "remove"] ELSE Idle]
  /\ CoreUnchanged /\ UNCHANGED <<rate_limits, last>>

\* os.remove(blob_path); FileNotFoundError when it is gone already
DeleteRemove(p) ==
  /\ req[p].pc = "remove"
  /\ blobs' = RemoveBlob(blobs, req[p].file.file_hash)
  /\ req' = [req EXCEPT ![p] = Idle]
  /\ UNCHANGED <<files, storage_used, shares, shared_files, next_id,
                 next_share, rate_limits, last, folders>>

\* ------------------------------------------------ POST /create-folder
\* the create-folder requests between their rate-limit gate and their commit
FoldersInFlight ==
  Cardinality({p \in Procs : req[p].pc \in {"fquery", "fcommit"}})

\* not folder_name or "/" in folder_name or "\\" in folder_name
valid_folder_name(name) ==
  ~(name = <<>> \/ Contains(name, "/") \/ Contains(name, "\\"))

\* the File rows and the Folder rows ever inserted (no folder is deleted)
RowsInserted == (next_id - 1) + Cardinality(folders)

\* create_folder run alone, from the rate-limit gate to its response
create_folder(username, raw) ==
  /\ UNCHANGED <<files, storage_used, blobs, shares, shared_files, next_id,
                 next_share>>
  /\ IF ~check_rate_limit(username, "create-folder")
     THEN /\ last' = Response("create-folder", username, 0, "rate_limit")
          /\ UNCHANGED <<rate_limits, folders>>
     ELSE /\ LogRequest(username, "create-folder")
          /\ IF ~valid_folder_name(strip(raw))
             THEN /\ last' = Response("create-folder", username, 0, "invalid")
                  /\ UNCHANGED folders
             ELSE IF \E d \in folders :
                       d.name = strip(raw) /\ d.owner = username
             THEN /\ last' = Response("create-folder", username, 0, "exists")
                  /\ UNCHANGED folders
             ELSE /\ RowsInserted + 1 <= MaxFolderRows
                  /\ folders' = folders \cup
                       {[id |-> Cardinality(folders) + 1,
                         name |-> strip(raw), owner |-> username]}
                  /\ last' = Response("create-folder", username, 0, "ok")

\* create_folder up to the validation of the stripped name
FolderStart(p, username, raw) ==
  /\ req[p].pc = "idle"
  /\ Cardinality(folders) + FoldersInFlight + 1 <= MaxFolders
  /\ CoreUnchanged /\ UNCHANGED last
  /\ IF ~check_rate_limit(username, "create-folder")
     THEN UNCHANGED <<rate_limits, req>>
     ELSE /\ LogRequest(username, "create-folder")
          /\ IF ~valid_folder_name(strip(raw))
             THEN UNCHANGED req
             ELSE req' = [req EXCEPT ![p] = [Idle EXCEPT !.pc = "fquery",
                            !.user = username, !.folder = strip(raw)]]

\* db.query(Folder).filter_by(name=folder_name, owner=username).first()
FolderQuery(p) ==
  /\ req[p].pc = "fquery"
  /\ IF \E d \in folders : d.name = req[p].folder /\ d.owner = req[p].user
     THEN req' = [req EXCEPT ![p] = Idle]
     ELSE req' = [req EXCEPT ![p].pc = "fcommit"]
  /\ CoreUnchanged /\ UNCHANGED <<rate_limits, last>>

\* db.add(Folder(name, owner)); db.commit()
FolderCommit(p) ==
  /\ req[p].pc = "fcommit"
  /\ folders' = folders \cup {[id |-> Cardinality(folders) + 1,
                               name |-> req[p].folder, owner |-> req[p].user]}
  /\ req' = [req EXCEPT ![p] = Idle]
  /\ UNCHANGED <<files, storage_used, blobs, shares, shared_files, next_id,
                 next_share, rate_limits, last>>

Init ==
  /\ files = {}
  /\ storage_used = [u \in Users |-> 0]
  /\ blobs = [h \in Hashes |-> "absent"]
  /\ shares = {}
  /\ shared_files = {}
  /\ rate_limits = NoRows
  /\ next_id = 1
  /\ next_share = 1
  /\ last = Response("none", "u1", 0, "none")
  /\ req = [p \in Procs |-> Idle]
  /\ folders = {}

\* Upload and delete requests one after the other: every handler runs to its
\* response
Sequential ==
  \/ \E u \in Users, b \in Batches, fo \in FolderInputs : upload_file(u, b, fo)
  \/ \E u \in Users, id \in 1..MaxFiles : delete_file(u, id)

Next ==
  \/ Sequential /\ UNCHANGED req
  \/ Tick

Spec == Init /\ [][Next]_vars

\* Single-item upload, delete and share requests one after the other
Sharing ==
  \/ \E u \in Users, c \in ShareContents, fo \in FolderInputs :
       next_id <= MaxShareFiles /\ upload_file(u, <<c>>, fo)
  \/ \E u \in Users, id \in 1..MaxShareFiles : delete_file(u, id)
  \/ \E u \in Users, id \in 1..MaxShareFiles : create_share(u, id)
  \/ \E u \in Users, id \in 1..MaxShareFiles, t \in Users :
       share_with_user(u, id, t)

NextShare ==
  \/ Sharing /\ UNCHANGED req
  \/ Tick

SpecShare == Init /\ [][NextShare]_vars

\* Overlapping requests on two workers
NextConc ==
  \/ \E p \in Procs, u \in Users, b \in ConcBatches, fo \in FolderInputs :
       UploadStart(p, u, b, fo)
  \/ \E p \in Procs : UploadQuery(p)
  \/ \E p \in Procs : UploadQuota(p)
  \/ \E p \in Procs : UploadExists(p)
  \/ \E p \in Procs : UploadOpen(p)
  \/ \E p \in Procs : UploadWrite(p)
  \/ \E p \in Procs : UploadCommit(p)
  \/ \E p \in Procs, u \in Users, id \in 1..MaxConcFiles :
       DeleteStart(p, u, id)
  \/ \E p \in Procs : DeleteLookup(p)
  \/ \E p \in Procs : DeleteGate(p)
  \/ \E p \in Procs : DeleteRefund(p)
  \/ \E p \in Procs : DeleteCommit(p)
  \/ \E p \in Procs : DeleteCount(p)
  \/ \E p \in Procs : DeleteExists(p)
  \/ \E p \in Procs : DeleteRemove(p)
  \/ Tick

SpecConc == Init /\ [][NextConc]_vars

\* One worker, requests one after the other, an upload may fail at any step
Worker == "p1"

NextCrash ==
  \/ \E u \in Users, b \in ConcBatches, fo \in FolderInputs :
       UploadStart(Worker, u, b, fo)
  \/ UploadQuery(Worker)
  \/ UploadQuota(Worker)
  \/ UploadExists(Worker)
  \/ UploadOpen(Worker)
  \/ UploadWrite(Worker)
  \/ UploadCommit(Worker)
  \/ UploadCrash(Worker)
  \/ \E u \in Users, id \in 1..MaxConcFiles : DeleteStart(Worker, u, id)
  \/ DeleteLookup(Worker)
  \/ DeleteGate(Worker)
  \/ DeleteRefund(Worker)
  \/ DeleteCommit(Worker)
  \/ DeleteCount(Worker)
  \/ DeleteExists(Worker)
  \/ DeleteRemove(Worker)
  \/ Tick

SpecCrash == Init /\ [][NextCrash]_vars

\* upload_file of one item, run alone, that passes the rate-limit gate and
\* the quota check, finds no blob, opens the blob file and ends there in an
\* exception (OSError of f.write): the rate-limit row is committed, the
\* request never reaches db.commit(), the opened file stays
upload_file_fails(username, c, folder) ==
  LET r == upload_item(username, c, folder, NewSession, blobs)
  IN /\ check_rate_limit(username, "upload")
     /\ r.b # blobs
     /\ LogRequest(username, "upload")
     /\ blobs' = OpenBlob(blobs, Hash(c))
     /\ storage_used' = Rollback(username, r.s)
     /\ last' = UploadResponse(username, <<c>>, "error", NewSession)
     /\ UNCHANGED <<files, shares, shared_files, next_id, next_share,
                    folders>>

\* Single-item upload and delete requests one after the other, every one run
\* to its response, which for an upload may be the failure of its blob write
NextRound ==
  \/ \E u \in Users, c \in Contents, fo \in FolderInputs :
       upload_file(u, <<c>>, fo) /\ UNCHANGED req
  \/ \E u \in Users, c \in Contents, fo \in FolderInputs :
       upload_file_fails(u, c, fo) /\ UNCHANGED req
  \/ \E u \in Users, id \in 1..MaxFiles : delete_file(u, id) /\ UNCHANGED req
  \/ Tick

SpecRound == Init /\ [][NextRound]_vars

\* Overlapping create-folder requests on two workers
NextFolder ==
  \/ \E p \in Procs, u \in Users, raw \in RawNames : FolderStart(p, u, raw)
  \/ \E p \in Procs : FolderQuery(p)
  \/ \E p \in Procs : FolderCommit(p)
  \/ Tick

SpecFolder == Init /\ [][NextFolder]_vars

\* Create-folder requests and single-item uploads into folders, one after
\* the other: the states GET /upload lists
NextListing ==
  \/ \E u \in Users, raw \in RawNames :
       create_folder(u, raw) /\ UNCHANGED req
  \/ \E u \in Users, c \in FolderContents, fo \in UploadFolders :
       /\ RowsInserted + 1 <= MaxFolderRows
       /\ upload_file(u, <<c>>, fo)
       /\ UNCHANGED req
  \/ Tick

SpecListing == Init /\ [][NextListing]_vars
\* ------------------------------------------------------------- the claims
UserRecords(F, u, h) == {f \in F : f.uploader = u /\ f.file_hash = h}
Originals(F) == {f \in F : ~f.is_duplicate}
Duplicates(F) == {f \in F : f.is_duplicate}

RECURSIVE SumSize(_)
SumSize(F) ==
  IF F = {} THEN 0
  ELSE LET f == CHOOSE x \in F : TRUE IN f.size + SumSize(F \ {f})

Fits(used, c) == used + Size(c) <= Quota

\* C1: when a user uploads content C, new to that user and fitting the quota,
\* in two upload requests one right after the other, both passing the rate
\* limit, the catalog then holds exactly two records of the user for hash(C),
\* one original and one duplicate, the blob of hash(C) is present, and the
\* user's storage_used has grown by size(C) once.
C1_TwiceSameUser ==
  [][\A u \in Users, c \in Contents, fo \in FolderInputs :
       ( /\ last.op = "upload" /\ last.user = u /\ last.batch = <<c>>
         /\ last.status # "rate_limit"
         /\ UserRecords(last.pre.files, u, Hash(c)) = {}
         /\ Fits(last.pre.storage_used[u], c)
         /\ check_rate_limit(u, "upload")
         /\ upload_file(u, <<c>>, fo) )
       => LET R == UserRecords(files', u, Hash(c))
          IN /\ Cardinality(R) = 2
             /\ Cardinality(Originals(R)) = 1
             /\ Cardinality(Duplicates(R)) = 1
             /\ blobs'[Hash(c)] = "full"
             /\ storage_used'[u] = last.pre.storage_used[u] + Size(c)
             /\ last.status = "ok" /\ last'.status = "ok"]_vars

\* C1 witness: the second of two single-item uploads of one content by one
\* user has completed (ids 1 and 2 are that user's two records of the hash).
C1_Witness ==
  /\ last.op = "upload" /\ last.status = "ok" /\ Len(last.batch) = 1
  /\ next_id = 3
  /\ Cardinality(UserRecords(files, last.user, Hash(last.batch[1]))) = 2
  /\ Cardinality(UserRecords(last.pre.files, last.user,
                             Hash(last.batch[1]))) = 1

\* C2: when two distinct users upload the same content C, new to both and
\* fitting both quotas, one request right after the other, each user has
\* exactly one record of hash(C), an original, each user's storage_used has
\* grown by size(C), and the blob of hash(C) is present.
C2_TwoUsersSameContent ==
  [][\A u1 \in Users, u2 \in Users, c \in Contents, fo \in FolderInputs :
       ( /\ u1 # u2
         /\ last.op = "upload" /\ last.user = u1 /\ last.batch = <<c>>
         /\ last.status # "rate_limit"
         /\ UserRecords(last.pre.files, u1, Hash(c)) = {}
         /\ UserRecords(last.pre.files, u2, Hash(c)) = {}
         /\ Fits(last.pre.storage_used[u1], c)
         /\ Fits(last.pre.storage_used[u2], c)
         /\ check_rate_limit(u2, "upload")
         /\ upload_file(u2, <<c>>, fo) )
       => /\ \A u \in {u1, u2} :
               LET R == UserRecords(files', u, Hash(c))
               IN /\ Cardinality(R) = 1
                  /\ Duplicates(R) = {}
                  /\ storage_used'[u] = last.pre.storage_used[u] + Size(c)
          /\ blobs'[Hash(c)] = "full"
          /\ last.status = "ok" /\ last'.status = "ok"]_vars

\* C2 witness: a user's upload has completed that inserted an original of a
\* hash of which the other user holds an original already.
C2_Witness ==
  /\ last.op = "upload" /\ last.status = "ok" /\ Len(last.batch) = 1
  /\ UserRecords(last.pre.files, last.user, Hash(last.batch[1])) = {}
  /\ \E u \in Users \ {last.user} :
       Originals(UserRecords(last.pre.files, u, Hash(last.batch[1]))) # {}
  /\ Originals(UserRecords(files, last.user, Hash(last.batch[1]))) # {}

\* C3: after every request of a run of requests one after the other, each
\* user's storage_used is the sum of the sizes of that user's originals.
C3_UsedIsSumOfOriginals ==
  \A u \in Users :
    storage_used[u] = SumSize(Originals({f \in files : f.uploader = u}))

\* C3 witness: a delete has succeeded and left a user with an original, a
\* duplicate and a positive storage_used.
C3_Witness ==
  /\ last.op = "delete" /\ last.status = "ok"
  /\ \E u \in Users :
       /\ storage_used[u] > 0
       /\ Duplicates({f \in files : f.uploader = u}) # {}
       /\ Originals({f \in files : f.uploader = u}) # {}
\* C4 (u and id are the user and the file id of the delete request the step
\* completes): a delete by the owner of an original, passing the rate limit
\* while a duplicate of the same user and hash exists, is answered with
\* delete_duplicates_first and changes no File row, no storage_used, no Share,
\* no SharedFile and no blob.
C4_GateRefusesOriginal ==
  [][LET u == last'.user
         id == last'.file_id
     IN
       ( /\ last'.op = "delete"
         /\ check_rate_limit(u, "delete")
         /\ delete_file(u, id)
         /\ \E f \in files :
              /\ f.id = id /\ f.uploader = u /\ ~f.is_duplicate
              /\ Duplicates(UserRecords(files, u, f.file_hash)) # {} )
       => /\ last'.status = "delete_duplicates_first"
          /\ files' = files /\ storage_used' = storage_used
          /\ shares' = shares /\ shared_files' = shared_files
          /\ blobs' = blobs]_vars

\* C4 witness: a delete of an original that carries a public share was refused
\* because of the user's duplicate.
C4_Witness ==
  /\ last.op = "delete" /\ last.status = "delete_duplicates_first"
  /\ \E f \in files :
       /\ f.id = last.file_id /\ f.uploader = last.user /\ ~f.is_duplicate
       /\ Duplicates(UserRecords(files, f.uploader, f.file_hash)) # {}
       /\ \E s \in shares : s.file_id = f.id

\* C5 (u and id are the user and the file id of the delete request the step
\* completes): a successful delete removes the blob of the record's hash exactly when
\* no record of any user references that hash afterwards; otherwise the blob
\* stays present; the blobs of the other hashes are untouched.
C5_BlobRemovedIffUnreferenced ==
  [][LET u == last'.user
         id == last'.file_id
     IN
       ( /\ last'.op = "delete" /\ last'.status = "ok"
         /\ delete_file(u, id) )
       => \E f \in files :
            /\ f.id = id /\ f.uploader = u
            /\ files' = files \ {f}
            /\ blobs[f.file_hash] = "full"
            /\ IF \E g \in files' : g.file_hash = f.file_hash
               THEN blobs'[f.file_hash] = "full"
               ELSE blobs'[f.file_hash] = "absent"
            /\ \A h \in Hashes \ {f.file_hash} : blobs'[h] = blobs[h]]_vars

\* C5 witness: a user's only record of a hash was deleted while the other
\* user still holds a record of it, and the blob is present.
C5_Witness ==
  /\ last.op = "delete" /\ last.status = "ok"
  /\ \E f \in last.pre.files :
       /\ f.id = last.file_id
       /\ UserRecords(files, f.uploader, f.file_hash) = {}
       /\ \E g \in files : g.file_hash = f.file_hash /\ g.uploader # f.uploader
       /\ blobs[f.file_hash] = "full"

\* C5 second witness: the last record of a hash was deleted and its blob is gone.
C5_WitnessLast ==
  /\ last.op = "delete" /\ last.status = "ok"
  /\ \E f \in last.pre.files :
       /\ f.id = last.file_id
       /\ \A g \in files : g.file_hash # f.file_hash
       /\ blobs[f.file_hash] = "absent"

\* The items of batch b before item i that were accepted
AcceptedBefore(it, i) == {j \in 1..(i - 1) : ~it[j].skipped}

\* Item i is new to user u: no record of its hash before the request and no
\* accepted earlier item of the batch with the same content
NewToUser(u, b, it, i) ==
  /\ UserRecords(files, u, Hash(b[i])) = {}
  /\ \A j \in AcceptedBefore(it, i) : b[j] # b[i]

RECURSIVE ChargedBefore(_, _, _, _)
ChargedBefore(u, b, it, i) ==
  IF i <= 1 THEN 0
  ELSE ChargedBefore(u, b, it, i - 1)
       + (IF ~it[i - 1].skipped /\ NewToUser(u, b, it, i - 1)
          THEN Size(b[i - 1]) ELSE 0)

\* C6 (u and b are the user and the batch of the upload request the step
\* completes): in a batch that passes the rate limit every item is processed; an item
\* is skipped exactly when it is new to the user and storage_used, as raised
\* by the accepted items before it, plus its size exceeds the quota (equal to
\* the quota is accepted); a skipped item adds no record, writes no blob and
\* charges nothing; every accepted item adds one record.
C6_QuotaSkipsOnlyTheItem ==
  [][\A fo \in FolderInputs :
       LET u == last'.user
           b == last'.batch
       IN
       ( /\ last'.op = "upload"
         /\ check_rate_limit(u, "upload")
         /\ upload_file(u, b, fo) )
       => LET it == last'.items
              acc == {i \in DOMAIN b : ~it[i].skipped}
              added == files' \ files
          IN /\ Len(it) = Len(b)
             /\ \A i \in DOMAIN b :
                  it[i].skipped <=>
                    /\ NewToUser(u, b, it, i)
                    /\ storage_used[u] + ChargedBefore(u, b, it, i)
                         + Size(b[i]) > Quota
             /\ files \subseteq files'
             /\ \A f \in added : f.uploader = u
             /\ \A h \in Hashes :
                  Cardinality({f \in added : f.file_hash = h})
                    = Cardinality({i \in acc : Hash(b[i]) = h})
             /\ storage_used'[u] =
                  storage_used[u] + ChargedBefore(u, b, it, Len(b) + 1)
             /\ \A v \in Users \ {u} : storage_used'[v] = storage_used[v]
             /\ \A h \in Hashes :
                  blobs'[h] = IF \E i \in acc : Hash(b[i]) = h
                              THEN "full" ELSE blobs[h]]_vars

\* C6 witness: a batch whose first item was skipped for the quota and whose
\* second item, new to the user, was accepted and filled the quota exactly.
C6_Witness ==
  /\ last.op = "upload" /\ Len(last.items) = 2
  /\ last.items[1].skipped
  /\ ~last.items[2].skipped /\ ~last.items[2].prior
  /\ blobs[last.items[1].file_hash] = "absent"
  /\ storage_used[last.user] = Quota
\* ------------------------------------------- claims on overlapping requests
InFlight(u) == {p \in Procs : req[p].pc # "idle" /\ req[p].user = u}

\* C7: in every state reached by any interleaving of upload and delete
\* requests, repeated and overlapping deletes included, every user's
\* storage_used is at least zero.
C7_UsedNeverNegative ==
  \A u \in Users : storage_used[u] >= 0

\* C7 witness: a delete of an original has committed whose refund exceeded the
\* storage_used it had read, so the reset to 0 acted.
C7_Witness ==
  \E p \in Procs :
    /\ req[p].pc = "count"
    /\ ~req[p].file.is_duplicate
    /\ req[p].sess.loaded
    /\ req[p].sess.orig < req[p].file.size
    /\ storage_used[req[p].user] = 0
\* The bytes a user's catalog holds: one size per hash held as an original
HeldBytes(u) ==
  SumSize({f \in Originals({g \in files : g.uploader = u}) :
             \A g \in files :
               (g.uploader = u /\ g.file_hash = f.file_hash /\ ~g.is_duplicate)
                 => g.id >= f.id})

\* C8: the quota check and the charge are one atomic step: under any
\* interleaving of a user's uploads storage_used stays within the quota, the
\* bytes the user holds stay within the quota, and once the user's requests
\* have ended no charge is missing from storage_used.
C8_ChargeAtomic ==
  \A u \in Users :
    /\ storage_used[u] <= Quota
    /\ HeldBytes(u) <= Quota
    /\ (InFlight(u) = {} => storage_used[u] >= HeldBytes(u))

\* C9: when the only two records ever inserted are two uploads of one content
\* by one user, one of them is the original and one the duplicate, and once
\* the user's requests have ended storage_used holds the size once.
C9_SameUserSameContent ==
  \A u \in Users, h \in Hashes :
    (next_id = 3 /\ Cardinality(UserRecords(files, u, h)) = 2)
      => /\ Cardinality(Originals(UserRecords(files, u, h))) = 1
         /\ Cardinality(Duplicates(UserRecords(files, u, h))) = 1
         /\ (InFlight(u) = {} =>
               storage_used[u] = SumSize(Originals(UserRecords(files, u, h))))

\* C10: in every state every committed record references a hash whose blob
\* exists.
C10_RecordHasBlob ==
  \A f \in files : blobs[f.file_hash] # "absent"

\* C11: when the only two records ever inserted are uploads of one content by
\* two different users, overlapping in any way, and both requests have
\* completed, the blob of the hash is present with its full content, each
\* user's record is a non-duplicate and each user's storage_used is the size,
\* charged once.
C11_TwoUsersConcurrently ==
  \A h \in Hashes :
    ( /\ next_id = 3 /\ Cardinality(files) = 2
      /\ \A f \in files : f.file_hash = h
      /\ \E f \in files, g \in files : f.uploader # g.uploader
      /\ \A p \in Procs : req[p].pc = "idle" )
    => /\ blobs[h] = "full"
       /\ \A f \in files :
            /\ ~f.is_duplicate
            /\ storage_used[f.uploader] = f.size

\* C11 witness: one user's upload of a content has committed its record while
\* the other user's upload of the same content, which had found no blob, is
\* between its open and its write.
C11_Witness ==
  \E p \in Procs :
    /\ req[p].pc = "write"
    /\ next_id = 2
    /\ \E f \in files : /\ f.file_hash = Hash(Item(p))
                         /\ f.uploader # req[p].user

\* C12: in no reachable state, a failed or interrupted write included, does
\* os.path.exists report a blob whose content is incomplete.
C12_NoPartialBlobVisible ==
  \A h \in Hashes : blob_exists_globally(blobs, h) => blobs[h] = "full"

\* C13: with uploads that fail at any step, the committed ledger and the
\* committed catalog agree for every item: a user's storage_used is the sum
\* of the sizes of the user's committed non-duplicate records, so no charge
\* is committed without its record and no record without its charge.
C13_ChargeAndRecordTogether ==
  \A u \in Users :
    storage_used[u] =
      SumSize({f \in files : f.uploader = u /\ ~f.is_duplicate})

\* C13 witness: an upload failed after its blob write and before db.commit():
\* the blob is complete, no record was ever inserted and nothing is charged.
C13_Witness ==
  /\ req[Worker].pc = "idle"
  /\ next_id = 1
  /\ \E h \in Hashes : blobs[h] = "full"
  /\ \A u \in Users : storage_used[u] = 0

\* C13 second witness: an upload failed between open and the end of the write
\* and a later upload of another content has committed its record and charge.
C13_WitnessLater ==
  /\ req[Worker].pc = "idle"
  /\ \E h \in Hashes :
       /\ blobs[h] = "partial"
       /\ \A f \in files : f.file_hash # h
  /\ \E u \in Users : storage_used[u] > 0

\* C14 (u and id are the user and the file id of the delete request the step
\* completes): a delete that passes the rate limit and names an id that does
\* not exist, or a record uploaded by another user, is answered not found and
\* changes no File row, no storage_used, no Share, no SharedFile and no blob.
C14_DeleteNotFound ==
  [][LET u == last'.user
         id == last'.file_id
     IN
       ( /\ last'.op = "delete"
         /\ check_rate_limit(u, "delete")
         /\ delete_file(u, id)
         /\ ~ \E f \in files : f.id = id /\ f.uploader = u )
       => /\ last'.status = "not_found"
          /\ files' = files /\ storage_used' = storage_used
          /\ shares' = shares /\ shared_files' = shared_files
          /\ blobs' = blobs]_vars

\* C14 witness: a delete that named another user's record, one that carries a
\* share entry, was answered not found.
C14_Witness ==
  /\ last.op = "delete" /\ last.status = "not_found"
  /\ \E f \in files :
       /\ f.id = last.file_id /\ f.uploader # last.user
       /\ \/ \E s \in shares : s.file_id = f.id
          \/ \E s \in shared_files : s.file_id = f.id

\* C14 second witness: a delete that named an id no record has.
C14_WitnessNoId ==
  /\ last.op = "delete" /\ last.status = "not_found"
  /\ files # {}
  /\ \A f \in files : f.id # last.file_id

\* C15 (u and id are the user and the file id of the delete request the step
\* completes): after a successful delete no Share and no SharedFile entry
\* references the deleted id, and the entries of every other record are the
\* ones there were before.
C15_DeleteCascades ==
  [][LET u == last'.user
         id == last'.file_id
     IN
       ( /\ last'.op = "delete" /\ last'.status = "ok"
         /\ delete_file(u, id) )
       => /\ \A s \in shares' : s.file_id # id
          /\ \A s \in shared_files' : s.file_id # id
          /\ shares' \subseteq shares
          /\ shared_files' \subseteq shared_files
          /\ \A s \in shares : s.file_id # id => s \in shares'
          /\ \A s \in shared_files :
               s.file_id # id => s \in shared_files']_vars

\* C15 witness: the only successful delete so far is the last request, a
\* share entry had been inserted, and no share entry is left: the delete
\* removed the entry of its record.
C15_Witness ==
  /\ last.op = "delete" /\ last.status = "ok"
  /\ Cardinality(files) = next_id - 2
  /\ next_share = 2
  /\ shares = {} /\ shared_files = {}

\* C15 second witness: a successful delete left the share entry of another
\* record in place.
C15_WitnessOther ==
  /\ last.op = "delete" /\ last.status = "ok"
  /\ \/ \E s \in shares : \E f \in files : f.id = s.file_id
     \/ \E s \in shared_files : \E f \in files : f.id = s.file_id

\* The gate denies: RATE_LIMIT_CALLS requests of this user and endpoint lie
\* inside the window
GateDenies(u, endpoint) ==
  /\ rate_limits.username = u /\ rate_limits.endpoint = endpoint
  /\ rate_limits.count >= RATE_LIMIT_CALLS

\* C16 (u is the user of the upload or delete request the step completes):
\* a request the rate-limit gate denies is answered with the rate-limit
\* redirect and inserts or removes no File row, changes no storage_used,
\* writes or removes no blob and changes no Share and no SharedFile.
C16_DeniedRequestHasNoEffect ==
  [][\A fo \in FolderInputs :
       LET u == last'.user
       IN
       ( \/ /\ last'.op = "upload" /\ GateDenies(u, "upload")
             /\ upload_file(u, last'.batch, fo)
          \/ /\ last'.op = "delete" /\ GateDenies(u, "delete")
             /\ delete_file(u, last'.file_id) )
       => /\ last'.status = "rate_limit"
          /\ files' = files /\ storage_used' = storage_used
          /\ blobs' = blobs /\ next_id' = next_id
          /\ shares' = shares /\ shared_files' = shared_files]_vars

\* C16 witness: the gate denied the delete of a record its owner could have
\* deleted and that carries a share entry.
C16_Witness ==
  /\ last.op = "delete" /\ last.status = "rate_limit"
  /\ \E f \in files :
       /\ f.id = last.file_id /\ f.uploader = last.user
       /\ \/ f.is_duplicate
          \/ Duplicates(UserRecords(files, f.uploader, f.file_hash)) = {}
       /\ \/ \E s \in shares : s.file_id = f.id
          \/ \E s \in shared_files : s.file_id = f.id

\* C16 second witness: the gate denied an upload of content the user holds,
\* which the loop accepts as a duplicate whatever the quota.
C16_WitnessUpload ==
  /\ last.op = "upload" /\ last.status = "rate_limit"
  /\ Len(last.batch) = 1
  /\ UserRecords(files, last.user, Hash(last.batch[1])) # {}

\* C19 (u and b are the user and the batch of the upload request the step
\* completes): an upload of content of which the user already has a record,
\* passing the rate limit, is accepted whatever storage_used is: it inserts
\* one record, with is_duplicate = true, leaves every storage_used as it was
\* and writes no blob.
C19_DuplicateBypassesQuota ==
  [][\A fo \in FolderInputs :
       LET u == last'.user
           b == last'.batch
       IN
       ( /\ last'.op = "upload" /\ Len(b) = 1
         /\ check_rate_limit(u, "upload")
         /\ upload_file(u, b, fo)
         /\ UserRecords(files, u, Hash(b[1])) # {} )
       => /\ last'.status = "ok"
          /\ \E f \in files' \ files :
               /\ files' = files \cup {f}
               /\ f.uploader = u /\ f.file_hash = Hash(b[1])
               /\ f.is_duplicate
          /\ storage_used' = storage_used
          /\ blobs' = blobs]_vars

\* C19 witness: a duplicate was accepted from a user whose storage_used
\* equalled the quota.
C19_Witness ==
  /\ last.op = "upload" /\ last.status = "ok" /\ Len(last.batch) = 1
  /\ last.items[1].prior /\ ~last.items[1].skipped
  /\ last.pre.storage_used[last.user] = Quota
  /\ storage_used[last.user] = Quota

C20_WitnessRaised ==
  /\ last.op = "upload" /\ Len(last.batch) = 2
  /\ ~last.items[1].skipped /\ last.items[2].skipped
  /\ Fits(last.pre.storage_used[last.user], last.batch[2])

\* s comes before t in lexicographic order: at the first position where they
\* differ s has ended or has the character of the smaller code point
LexBefore(s, t) ==
  \E k \in 1..(Len(t)) :
    /\ k <= Len(s) + 1
    /\ \A j \in 1..(k - 1) : s[j] = t[j]
    /\ \/ k = Len(s) + 1
       \/ Ord(s[k]) < Ord(t[k])

\* the group a file belongs to: the default group without or with a blank
\* folder, else the folder of its name
GroupOf(f) == IF f.folder \in {NoFolder, <<>>} THEN Root ELSE f.folder

\* C17: the folder listing of every user starts with the default group and
\* goes on with the named folders in lexicographic order, each once; it has
\* every folder the user created, every folder name one of the user's files
\* carries, and every file of the user in the group of its folder and in no
\* other (without or with a blank folder: the default group); it has no file
\* of another user.
C17_FolderListing ==
  \A u \in Users :
    LET L == sorted_folders(u)
    IN /\ L[1].name = Root
       /\ \A i \in 2..Len(L) : \A j \in 2..Len(L) :
            i < j => LexBefore(L[i].name, L[j].name)
       /\ \A i \in 2..Len(L) : L[i].name # Root
       /\ \A d \in folders :
            d.owner = u => \E i \in DOMAIN L : L[i].name = d.name
       /\ \A f \in files :
            f.uploader = u =>
              /\ \E i \in DOMAIN L : L[i].name = GroupOf(f)
              /\ \A i \in DOMAIN L : f \in L[i].files <=> L[i].name = GroupOf(f)
       /\ \A i \in DOMAIN L : \A f \in L[i].files : f.uploader = u

\* C17 witness: a user's listing has the default group, holding a file with a
\* blank folder, then a folder of an upper-case name with a file and then
\* an empty folder the user created, of a lower-case name.
C17_Witness ==
  \E u \in Users :
    LET L == sorted_folders(u)
    IN /\ Len(L) = 3
       /\ \E f \in L[1].files : f.folder = <<>>
       /\ L[2].name = <<"B">> /\ L[2].files # {}
       /\ L[3].name = <<"a">> /\ L[3].files = {}

\* C18: no owner has two Folder entries of one name, and no Folder name is
\* empty or holds a path separator, whatever create-folder requests overlap.
C18_FolderNamesUnique ==
  /\ \A d \in folders, e \in folders :
       (d.owner = e.owner /\ d.name = e.name) => d = e
  /\ \A d \in folders :
       d.name # <<>> /\ ~Contains(d.name, "/") /\ ~Contains(d.name, "\\")

\* C21: in every state, whatever uploads and deletes overlap, each user has
\* at most one non-duplicate record of each hash, and a user who has a
\* duplicate record of a hash has a non-duplicate record of it too.
C21_DuplicateHasOriginal ==
  \A u \in Users, h \in Hashes :
    /\ Cardinality(Originals(UserRecords(files, u, h))) <= 1
    /\ Duplicates(UserRecords(files, u, h)) # {}
         => Originals(UserRecords(files, u, h)) # {}

\* the hashes whose blob is on disk
Present(B) == {h \in Hashes : B[h] # "absent"}

\* C22 (u and id are the user and the file id of the delete request the step
\* completes): when the request before was an upload of one file that was
\* accepted, and the delete succeeds on the record that upload created, the
\* File rows, every user's storage_used and the set of present blobs are
\* again what they were before the upload.
C22_RoundTrip ==
  [][LET u == last'.user
         id == last'.file_id
     IN
       ( /\ last.op = "upload" /\ Len(last.batch) = 1
         /\ last.uploaded_count = 1
         /\ last'.op = "delete" /\ last'.status = "ok"
         /\ id = next_id - 1
         /\ delete_file(u, id) )
       => /\ files' = last.pre.files
          /\ storage_used' = last.pre.storage_used
          /\ Present(blobs') = Present(last.pre.blobs)]_vars

\* C22 witness: the newest record, a non-duplicate whose upload had written
\* the blob, was deleted: the user is charged nothing and the blob is gone.
C22_Witness ==
  /\ last.op = "delete" /\ last.status = "ok"
  /\ last.file_id = next_id - 1
  /\ \E f \in last.pre.files :
       /\ f.id = last.file_id /\ ~f.is_duplicate
       /\ last.pre.storage_used[f.uploader] = f.size
       /\ storage_used[f.uploader] = 0
       /\ blobs[f.file_hash] = "absent"

\* C22 second witness: the newest record, a duplicate, was deleted: the
\* user's non-duplicate of the hash, the charge and the blob are still there.
C22_WitnessDuplicate ==
  /\ last.op = "delete" /\ last.status = "ok"
  /\ last.file_id = next_id - 1
  /\ \E f \in last.pre.files :
       /\ f.id = last.file_id /\ f.is_duplicate
       /\ Originals(UserRecords(files, f.uploader, f.file_hash)) # {}
       /\ storage_used[f.uploader] = f.size
       /\ blobs[f.file_hash] = "full"
====
